---- MODULE Spec2Model ----
(***************************************************************************)
(* Model of subscrape's operation dispatcher (ParachainScraper, in         *)
(* subscrape/scrapers/parachain_scraper.py) and of the event look-up of    *)
(* its cache store (SubscrapeDB, in subscrape/db/subscrape_db.py).         *)
(*                                                                         *)
(* Spec   : one call of ParachainScraper.scrape, stepped statement by      *)
(*          statement, over a bounded family of configuration trees.       *)
(* SpecDB : calls of SubscrapeDB.missing_events_from_index_list over every *)
(*          bounded Event table and candidate list.                        *)
(***************************************************************************)
EXTENDS Naturals, Sequences, FiniteSets

VARIABLES
    operations,            \* scrape's `operations` dict: entries in insertion order
    chain_config,          \* scrape's `chain_config` scope
    fetch_transfers_async, \* whether api.fetch_transfers is a coroutine function
    pc,                    \* the dispatcher's position
    op_i,                  \* position of `for operation in operations`
    mod_i,                 \* position of `for module in modules`
    call_i,                \* position of `for call in calls`
    acc_i,                 \* position of `for account in accounts`
    items_scraped,         \* scrape's local items_scraped
    inner_scraped,         \* items_scraped of the walker scrape called
    status,                \* "running", "returned" or "raised"
    exc,                   \* the exception scrape raised: "none", "TypeError", "FetchError"
    result,                \* scrape's return value, meaningful when status = "returned"
    log,                   \* history: every fetch entry point invocation, in order
    errors_logged,         \* history: the keys passed to logger.error
    dispatched,            \* history: positions of the operation keys handed to a branch
    events_table,          \* SubscrapeDB: the rows of table `events`
    index_list,            \* SubscrapeDB: argument of the last look-up
    missing,               \* SubscrapeDB: result of the last look-up
    table_before           \* history: the table when the last look-up began

svars == <<operations, chain_config, fetch_transfers_async, pc, op_i, mod_i, call_i,
           acc_i, items_scraped, inner_scraped, status, exc, result, log,
           errors_logged, dispatched>>
dbvars == <<events_table, index_list, missing, table_before>>
vars == <<svars, dbvars>>

(***************************************************************************)
(* Bounds.                                                                 *)
(***************************************************************************)
\* largest number of keys of an operations map
MaxOps == 2
\* largest count one fetch invocation reports
MaxCount == 1
\* largest length of a candidate list handed to the look-up
MaxLen == 3

(***************************************************************************)
(* Configuration values: Python's None, bool, list of str, and dict (an    *)
(* insertion-ordered sequence of key/value entries).                       *)
(***************************************************************************)
Null == [tag |-> "null"]
Bool(b) == [tag |-> "bool", b |-> b]
List(s) == [tag |-> "list", items |-> s]
Dict(e) == [tag |-> "dict", entries |-> e]
Entry(k, v) == [key |-> k, val |-> v]

\* the names of the model that begin with "_"
UnderscoreNames == {"_skip", "_params"}

\* a faulty variant: the metadata check left out
StartsWithUnderscoreNever(name) == FALSE
\* name.startswith("_")
StartsWithUnderscore(name) == name \in UnderscoreNames

\* whether `for x in v` can iterate v; None is not iterable
Iterable(v) == v.tag \in {"list", "dict"}

\* the elements `for x in v` yields: a dict's keys, a list's items
IterKeys(v) ==
    IF v.tag = "dict" THEN [i \in 1..Len(v.entries) |-> v.entries[i].key]
    ELSE IF v.tag = "list" THEN v.items
    ELSE <<>>

\* whether v[key] is defined for a str key: only a dict can be indexed by a str
Subscriptable(v, key) ==
    v.tag = "dict" /\ \E i \in 1..Len(v.entries) : v.entries[i].key = key

\* v[key]
Subscript(v, key) ==
    LET i == CHOOSE j \in 1..Len(v.entries) : v.entries[j].key = key
    IN  v.entries[i].val

(***************************************************************************)
(* The configuration scope (ScrapeConfig).                                 *)
(***************************************************************************)
\* whether a subtree carries a skip marker of its own
MarksSkip(subtree) ==
    /\ subtree.tag = "dict"
    /\ \E i \in 1..Len(subtree.entries) :
          subtree.entries[i] = Entry("_skip", Bool(TRUE))

\* ScrapeConfig.create_inner_config
CreateInnerConfig(parent, subtree) ==
    [skip |-> parent.skip \/ MarksSkip(subtree), config |-> subtree]

\* the scope slot of a fetch entry point that takes no scope
NoScope == [skip |-> FALSE, config |-> Null]

(***************************************************************************)
(* The configuration trees scrape is run on.                               *)
(***************************************************************************)
SkipCfg == Dict(<<Entry("_skip", Bool(TRUE))>>)

\* values of a module key: None, a list of call names, a dict call -> config
CallsValues ==
    {Null,
     List(<<"propose_bounty">>),
     List(<<"_params", "propose_bounty">>),
     List(<<"propose_bounty", "close_bounty">>),
     Dict(<<Entry("propose_bounty", Null)>>),
     Dict(<<Entry("propose_bounty", SkipCfg), Entry("close_bounty", Null)>>),
     Dict(<<Entry("_skip", Bool(TRUE)), Entry("propose_bounty", Null)>>)}

\* values of `extrinsics` and `events`
ModulesValues ==
    {Null}
    \cup {Dict(<<Entry("bounties", v)>>) : v \in CallsValues}
    \cup {Dict(<<Entry("_skip", Bool(TRUE)), Entry("bounties", List(<<"propose_bounty">>))>>)}
    \cup {Dict(<<Entry("bounties", v), Entry("system", List(<<"remark">>))>>) :
             v \in {Null,
                    Dict(<<Entry("propose_bounty", SkipCfg)>>),
                    Dict(<<Entry("_skip", Bool(TRUE)), Entry("propose_bounty", Null)>>)}}

\* values of `transfers`
AccountsValues ==
    {Null,
     List(<<"alice">>),
     Dict(<<Entry("alice", Null)>>),
     Dict(<<Entry("_params", Null), Entry("alice", Null), Entry("bob", Null)>>),
     Dict(<<Entry("alice", SkipCfg), Entry("bob", Null)>>),
     Dict(<<Entry("_skip", Bool(TRUE)), Entry("alice", Null)>>)}

ModuleCallOps == {"extrinsics", "events"}
ListOps == {"extrinsics-list", "events-list"}
RecognizedOps == ModuleCallOps \cup ListOps \cup {"transfers"}
OperationKeys == RecognizedOps \cup {"staking", "_params"}

ValuesOf(key) ==
    IF key \in ModuleCallOps THEN ModulesValues
    ELSE IF key = "transfers" THEN AccountsValues
    ELSE IF key = "extrinsics-list" THEN {List(<<"14238250-2">>)}
    ELSE IF key = "events-list" THEN {List(<<"14238250-39">>)}
    ELSE {Null}

OperationEntries == UNION {{Entry(k, v) : v \in ValuesOf(k)} : k \in OperationKeys}

\* the operations maps: at most MaxOps entries, no key twice
OperationsMaps ==
    {m \in UNION {[1..n -> OperationEntries] : n \in 0..MaxOps} :
        \A i, j \in 1..Len(m) : i # j => m[i].key # m[j].key}

(***************************************************************************)
(* The values scrape and its walkers compute at their current position.    *)
(***************************************************************************)
operation == operations[op_i].key
\* modules = operations[operation], accounts = operations[operation]
modules == operations[op_i].val
accounts == operations[op_i].val
\* extrinsic_config = chain_config.create_inner_config(modules)
extrinsic_config == CreateInnerConfig(chain_config, modules)
module == IterKeys(modules)[mod_i]
\* calls = modules[module]
calls == Subscript(modules, module)
\* module_config = extrinsic_config.create_inner_config(calls)
module_config == CreateInnerConfig(extrinsic_config, calls)
call == IterKeys(calls)[call_i]
\* call_config: narrowed by calls[call] when calls is a dict, else module_config
call_config ==
    IF calls.tag = "dict" THEN CreateInnerConfig(module_config, Subscript(calls, call))
    ELSE module_config
\* fetch_function: the bound method scrape hands to scrape_module_calls
fetch_function ==
    IF operation = "extrinsics" THEN "fetch_extrinsics_index" ELSE "fetch_events_index"
\* accounts_config = chain_config.create_inner_config(accounts)
accounts_config == CreateInnerConfig(chain_config, accounts)
account == IterKeys(accounts)[acc_i]
\* type(account) is dict: account is an element the loop yields, a str
AccountTypeIsDict == FALSE
account_config ==
    IF AccountTypeIsDict THEN CreateInnerConfig(accounts_config, Subscript(accounts, account))
    ELSE accounts_config

\* one fetch invocation, as recorded in the history
Invocation(fn, args, scope, payload, state, count, pos) ==
    [fn |-> fn, args |-> args, scope |-> scope, payload |-> payload,
     state |-> state, count |-> count, pos |-> pos]

\* scrape raises: the exception leaves the coroutine, nothing else runs
Raise(e) ==
    /\ status' = "raised"
    /\ exc' = e
    /\ pc' = "done"

SetLast(s, field, value) == [s EXCEPT ![Len(s)] = [@ EXCEPT ![field] = value]]

(***************************************************************************)
(* ParachainScraper.scrape                                                 *)
(***************************************************************************)
Init ==
    /\ operations \in OperationsMaps
    /\ chain_config \in {[skip |-> b, config |-> Dict(operations)] : b \in BOOLEAN}
    /\ fetch_transfers_async \in BOOLEAN
    /\ pc = "scrape"
    /\ op_i = 1
    /\ mod_i = 0
    /\ call_i = 0
    /\ acc_i = 0
    /\ items_scraped = 0
    /\ inner_scraped = 0
    /\ status = "running"
    /\ exc = "none"
    /\ result = 0
    /\ log = <<>>
    /\ errors_logged = <<>>
    /\ dispatched = <<>>
    /\ events_table = {}
    /\ index_list = <<>>
    /\ missing = <<>>
    /\ table_before = {}

\* the loop `for operation in operations` has an element left
AtOperation == pc = "scrape" /\ op_i <= Len(operations)

\* if operation.startswith("_"): continue
ScrapeSkipMetadata ==
    /\ AtOperation
    /\ StartsWithUnderscore(operation)
    /\ op_i' = op_i + 1
    /\ UNCHANGED <<operations, chain_config, fetch_transfers_async, pc, mod_i, call_i,
                   acc_i, items_scraped, inner_scraped, status, exc, result, log,
                   errors_logged, dispatched, dbvars>>

\* "extrinsics" / "events": the call of scrape_module_calls, up to its outer loop
ScrapeModuleCalls ==
    /\ AtOperation
    /\ ~StartsWithUnderscore(operation)
    /\ operation \in ModuleCallOps
    /\ dispatched' = Append(dispatched, op_i)
    /\ IF Iterable(modules)
       THEN /\ pc' = "modules"
            /\ mod_i' = 1
            /\ inner_scraped' = 0
            /\ UNCHANGED <<status, exc>>
       ELSE \* for module in None: TypeError
            /\ Raise("TypeError")
            /\ UNCHANGED <<mod_i, inner_scraped>>
    /\ UNCHANGED <<operations, chain_config, fetch_transfers_async, op_i, call_i, acc_i,
                   items_scraped, result, log, errors_logged, dbvars>>

\* "extrinsics-list" / "events-list": the batch fetch is called and awaited
ScrapeFetchList ==
    /\ AtOperation
    /\ ~StartsWithUnderscore(operation)
    /\ operation \in ListOps
    /\ dispatched' = Append(dispatched, op_i)
    /\ log' = Append(log, Invocation(
                  IF operation = "extrinsics-list" THEN "fetch_extrinsics" ELSE "fetch_events",
                  <<>>, NoScope, operations[op_i].val, "pending", 0, <<op_i, 0, 0>>))
    /\ pc' = "await_list"
    /\ UNCHANGED <<operations, chain_config, fetch_transfers_async, op_i, mod_i, call_i,
                   acc_i, items_scraped, inner_scraped, status, exc, result,
                   errors_logged, dbvars>>

\* "transfers": the call of scrape_transfers, up to its loop
ScrapeTransfers ==
    /\ AtOperation
    /\ ~StartsWithUnderscore(operation)
    /\ operation = "transfers"
    /\ dispatched' = Append(dispatched, op_i)
    /\ IF Iterable(accounts)
       THEN /\ pc' = "accounts"
            /\ acc_i' = 1
            /\ inner_scraped' = 0
            /\ UNCHANGED <<status, exc>>
       ELSE \* for account in None: TypeError
            /\ Raise("TypeError")
            /\ UNCHANGED <<acc_i, inner_scraped>>
    /\ UNCHANGED <<operations, chain_config, fetch_transfers_async, op_i, mod_i, call_i,
                   items_scraped, result, log, errors_logged, dbvars>>

\* a faulty variant: the `exit` of the else branch written as a call, exit(),
\* which raises SystemExit
ScrapeUnrecognizedExits ==
    /\ AtOperation
    /\ ~StartsWithUnderscore(operation)
    /\ operation \notin RecognizedOps
    /\ errors_logged' = Append(errors_logged, operation)
    /\ Raise("SystemExit")
    /\ UNCHANGED <<operations, chain_config, fetch_transfers_async, op_i, mod_i, call_i,
                   acc_i, items_scraped, inner_scraped, result, log, dispatched, dbvars>>

\* else: logger.error(...); `exit` is a bare name, the loop goes on
ScrapeUnrecognized ==
    /\ AtOperation
    /\ ~StartsWithUnderscore(operation)
    /\ operation \notin RecognizedOps
    /\ errors_logged' = Append(errors_logged, operation)
    /\ op_i' = op_i + 1
    /\ UNCHANGED <<operations, chain_config, fetch_transfers_async, pc, mod_i, call_i,
                   acc_i, items_scraped, inner_scraped, status, exc, result, log,
                   dispatched, dbvars>>

\* return items_scraped
ScrapeReturn ==
    /\ pc = "scrape"
    /\ op_i > Len(operations)
    /\ status' = "returned"
    /\ result' = items_scraped
    /\ pc' = "done"
    /\ UNCHANGED <<operations, chain_config, fetch_transfers_async, op_i, mod_i, call_i,
                   acc_i, items_scraped, inner_scraped, exc, log, errors_logged,
                   dispatched, dbvars>>

(***************************************************************************)
(* ParachainScraper.scrape_module_calls                                    *)
(***************************************************************************)
AtModule == pc = "modules" /\ mod_i <= Len(IterKeys(modules))

\* if module.startswith("_"): continue
ModuleSkipMetadata ==
    /\ AtModule
    /\ StartsWithUnderscore(module)
    /\ mod_i' = mod_i + 1
    /\ UNCHANGED <<operations, chain_config, fetch_transfers_async, pc, op_i, call_i,
                   acc_i, items_scraped, inner_scraped, status, exc, result, log,
                   errors_logged, dispatched, dbvars>>

\* calls = modules[module]; module_config = ...; for call in calls
ModuleCalls ==
    /\ AtModule
    /\ ~StartsWithUnderscore(module)
    /\ IF Subscriptable(modules, module) /\ Iterable(calls)
       THEN /\ pc' = "calls"
            /\ call_i' = 1
            /\ UNCHANGED <<status, exc>>
       ELSE \* modules[module] on a list, or for call in None: TypeError
            /\ Raise("TypeError")
            /\ UNCHANGED call_i
    /\ UNCHANGED <<operations, chain_config, fetch_transfers_async, op_i, mod_i, acc_i,
                   items_scraped, inner_scraped, result, log, errors_logged, dispatched,
                   dbvars>>

\* return items_scraped, and scrape's items_scraped += await ...
ModulesReturn ==
    /\ pc = "modules"
    /\ mod_i > Len(IterKeys(modules))
    /\ items_scraped' = items_scraped + inner_scraped
    /\ op_i' = op_i + 1
    /\ pc' = "scrape"
    /\ UNCHANGED <<operations, chain_config, fetch_transfers_async, mod_i, call_i, acc_i,
                   inner_scraped, status, exc, result, log, errors_logged, dispatched,
                   dbvars>>

AtCall == pc = "calls" /\ call_i <= Len(IterKeys(calls))

\* if call.startswith("_"): continue
CallSkipMetadata ==
    /\ AtCall
    /\ StartsWithUnderscore(call)
    /\ call_i' = call_i + 1
    /\ UNCHANGED <<operations, chain_config, fetch_transfers_async, pc, op_i, mod_i,
                   acc_i, items_scraped, inner_scraped, status, exc, result, log,
                   errors_logged, dispatched, dbvars>>

\* a faulty variant: the skip check reads the module's scope, not the call's
CallWantsSkipOfModule == module_config.skip
\* if call_config.skip
CallWantsSkip == call_config.skip

\* if call_config.skip: logger.info(...); continue
CallSkipped ==
    /\ AtCall
    /\ ~StartsWithUnderscore(call)
    /\ CallWantsSkip
    /\ call_i' = call_i + 1
    /\ UNCHANGED <<operations, chain_config, fetch_transfers_async, pc, op_i, mod_i,
                   acc_i, items_scraped, inner_scraped, status, exc, result, log,
                   errors_logged, dispatched, dbvars>>

\* await fetch_function(module, call, call_config): the call is made
CallFetch ==
    /\ AtCall
    /\ ~StartsWithUnderscore(call)
    /\ ~CallWantsSkip
    /\ log' = Append(log, Invocation(fetch_function, <<module, call>>, call_config, Null,
                                     "pending", 0, <<op_i, mod_i, call_i>>))
    /\ pc' = "await_index"
    /\ UNCHANGED <<operations, chain_config, fetch_transfers_async, op_i, mod_i, call_i,
                   acc_i, items_scraped, inner_scraped, status, exc, result,
                   errors_logged, dispatched, dbvars>>

\* the inner loop ends: next module
CallsExhausted ==
    /\ pc = "calls"
    /\ call_i > Len(IterKeys(calls))
    /\ mod_i' = mod_i + 1
    /\ pc' = "modules"
    /\ UNCHANGED <<operations, chain_config, fetch_transfers_async, op_i, call_i, acc_i,
                   items_scraped, inner_scraped, status, exc, result, log, errors_logged,
                   dispatched, dbvars>>

(***************************************************************************)
(* The awaited fetch entry points of the API.                              *)
(***************************************************************************)
Awaiting == pc \in {"await_index", "await_list"}

\* the awaited fetch returns its count, which is added to items_scraped
FetchReturns ==
    /\ Awaiting
    /\ \E count \in 0..MaxCount :
          /\ log' = SetLast(SetLast(log, "state", "returned"), "count", count)
          /\ IF pc = "await_index"
             THEN /\ inner_scraped' = inner_scraped + count
                  /\ call_i' = call_i + 1
                  /\ pc' = "calls"
                  /\ UNCHANGED <<items_scraped, op_i>>
             ELSE /\ items_scraped' = items_scraped + count
                  /\ op_i' = op_i + 1
                  /\ pc' = "scrape"
                  /\ UNCHANGED <<inner_scraped, call_i>>
    /\ UNCHANGED <<operations, chain_config, fetch_transfers_async, mod_i, acc_i, status,
                   exc, result, errors_logged, dispatched, dbvars>>

\* a faulty variant: the failure is caught, counted as zero, and the walk goes on
FetchRaisesCaught ==
    /\ Awaiting
    /\ log' = SetLast(log, "state", "raised")
    /\ IF pc = "await_index"
       THEN /\ call_i' = call_i + 1
            /\ pc' = "calls"
            /\ UNCHANGED op_i
       ELSE /\ op_i' = op_i + 1
            /\ pc' = "scrape"
            /\ UNCHANGED call_i
    /\ UNCHANGED <<operations, chain_config, fetch_transfers_async, mod_i, acc_i,
                   items_scraped, inner_scraped, status, exc, result, errors_logged,
                   dispatched, dbvars>>

\* the awaited fetch fails: no try/except on the way up, scrape raises
FetchRaises ==
    /\ Awaiting
    /\ log' = SetLast(log, "state", "raised")
    /\ Raise("FetchError")
    /\ UNCHANGED <<operations, chain_config, fetch_transfers_async, op_i, mod_i, call_i,
                   acc_i, items_scraped, inner_scraped, result, errors_logged,
                   dispatched, dbvars>>

(***************************************************************************)
(* ParachainScraper.scrape_transfers (a plain function: no await inside)   *)
(***************************************************************************)
AtAccount == pc = "accounts" /\ acc_i <= Len(IterKeys(accounts))

\* if account.startswith("_"): continue
AccountSkipMetadata ==
    /\ AtAccount
    /\ StartsWithUnderscore(account)
    /\ acc_i' = acc_i + 1
    /\ UNCHANGED <<operations, chain_config, fetch_transfers_async, pc, op_i, mod_i,
                   call_i, items_scraped, inner_scraped, status, exc, result, log,
                   errors_logged, dispatched, dbvars>>

\* if account_config.skip: logger.info(...); continue
AccountSkipped ==
    /\ AtAccount
    /\ ~StartsWithUnderscore(account)
    /\ account_config.skip
    /\ acc_i' = acc_i + 1
    /\ UNCHANGED <<operations, chain_config, fetch_transfers_async, pc, op_i, mod_i,
                   call_i, items_scraped, inner_scraped, status, exc, result, log,
                   errors_logged, dispatched, dbvars>>

AtFetchTransfers ==
    /\ AtAccount
    /\ ~StartsWithUnderscore(account)
    /\ ~account_config.skip

\* items_scraped += self.api.fetch_transfers(...), fetch_transfers a coroutine
\* function: the call only makes a coroutine object, and int += coroutine is a
\* TypeError
AccountFetchNotAwaited ==
    /\ AtFetchTransfers
    /\ fetch_transfers_async
    /\ log' = Append(log, Invocation("fetch_transfers", <<account>>, account_config, Null,
                                     "not_awaited", 0, <<op_i, acc_i, 0>>))
    /\ Raise("TypeError")
    /\ UNCHANGED <<operations, chain_config, fetch_transfers_async, op_i, mod_i, call_i,
                   acc_i, items_scraped, inner_scraped, result, errors_logged,
                   dispatched, dbvars>>

\* the same statement, fetch_transfers a plain function that returns its count
AccountFetchReturns ==
    /\ AtFetchTransfers
    /\ ~fetch_transfers_async
    /\ \E count \in 0..MaxCount :
          /\ log' = Append(log, Invocation("fetch_transfers", <<account>>, account_config,
                                           Null, "returned", count, <<op_i, acc_i, 0>>))
          /\ inner_scraped' = inner_scraped + count
    /\ acc_i' = acc_i + 1
    /\ UNCHANGED <<operations, chain_config, fetch_transfers_async, pc, op_i, mod_i,
                   call_i, items_scraped, status, exc, result, errors_logged, dispatched,
                   dbvars>>

\* the same statement, fetch_transfers a plain function that fails
AccountFetchRaises ==
    /\ AtFetchTransfers
    /\ ~fetch_transfers_async
    /\ log' = Append(log, Invocation("fetch_transfers", <<account>>, account_config, Null,
                                     "raised", 0, <<op_i, acc_i, 0>>))
    /\ Raise("FetchError")
    /\ UNCHANGED <<operations, chain_config, fetch_transfers_async, op_i, mod_i, call_i,
                   acc_i, items_scraped, inner_scraped, result, errors_logged,
                   dispatched, dbvars>>

\* the loop ends and the function ends without a return statement: it returns
\* None, and scrape's `await None` is a TypeError
AccountsExhausted ==
    /\ pc = "accounts"
    /\ acc_i > Len(IterKeys(accounts))
    /\ Raise("TypeError")
    /\ UNCHANGED <<operations, chain_config, fetch_transfers_async, op_i, mod_i, call_i,
                   acc_i, items_scraped, inner_scraped, result, log, errors_logged,
                   dispatched, dbvars>>

Next ==
    \/ ScrapeSkipMetadata
    \/ ScrapeModuleCalls
    \/ ScrapeFetchList
    \/ ScrapeTransfers
    \/ ScrapeUnrecognized
    \/ ScrapeReturn
    \/ ModuleSkipMetadata
    \/ ModuleCalls
    \/ ModulesReturn
    \/ CallSkipMetadata
    \/ CallSkipped
    \/ CallFetch
    \/ CallsExhausted
    \/ FetchReturns
    \/ FetchRaises
    \/ AccountSkipMetadata
    \/ AccountSkipped
    \/ AccountFetchNotAwaited
    \/ AccountFetchReturns
    \/ AccountFetchRaises
    \/ AccountsExhausted

Spec == Init /\ [][Next]_vars

(***************************************************************************)
(* SubscrapeDB.missing_events_from_index_list                              *)
(***************************************************************************)
\* ids of the form "<block_number>-<index>"
EventIds == {"15228214-1", "15228214-2", "15228215-1"}
EventNames == {"Deposit", "Transfer"}
\* a row of table `events`: its primary key and one more column
EventRows == [id : EventIds, event : EventNames]
\* the contents the table can have: the primary key is unique
EventTables ==
    {t \in SUBSET EventRows : \A r1, r2 \in t : r1.id = r2.id => r1 = r2}
IndexLists == UNION {[1..n -> EventIds] : n \in 0..MaxLen}

Elements(s) == {s[i] : i \in 1..Len(s)}

\* self._session.query(Event).filter(Event.id.in_(index_list)).all()
Matches(table, list) == {row \in table : row.id \in Elements(list)}

\* a faulty variant: `if index in [...]` for `if index not in [...]`
MissingEventsInverted(table, list) ==
    LET match_ids == {match.id : match \in Matches(table, list)}
        Keep(index) == index \in match_ids
    IN  SelectSeq(list, Keep)

\* [index for index in index_list if index not in [match.id for match in matches]]
MissingEvents(table, list) ==
    LET match_ids == {match.id : match \in Matches(table, list)}
        Keep(index) == index \notin match_ids
    IN  SelectSeq(list, Keep)

InitDB ==
    /\ events_table \in EventTables
    /\ index_list = <<>>
    /\ missing = <<>>
    /\ table_before = events_table
    /\ operations = <<>>
    /\ chain_config = [skip |-> FALSE, config |-> Dict(<<>>)]
    /\ fetch_transfers_async = FALSE
    /\ pc = "db"
    /\ op_i = 1
    /\ mod_i = 0
    /\ call_i = 0
    /\ acc_i = 0
    /\ items_scraped = 0
    /\ inner_scraped = 0
    /\ status = "running"
    /\ exc = "none"
    /\ result = 0
    /\ log = <<>>
    /\ errors_logged = <<>>
    /\ dispatched = <<>>

\* one call of missing_events_from_index_list: a query and a list comprehension
missing_events_from_index_list ==
    /\ pc = "db"
    /\ \E list \in IndexLists :
          /\ index_list' = list
          /\ missing' = MissingEvents(events_table, list)
    /\ table_before' = events_table
    /\ UNCHANGED events_table
    /\ UNCHANGED svars

NextDB == missing_events_from_index_list

SpecDB == InitDB /\ [][NextDB]_vars

(***************************************************************************)
(* Vocabulary of the properties.                                           *)
(***************************************************************************)
RECURSIVE SumCounts(_)
\* the sum of the counts the fetch invocations of a history returned
SumCounts(s) ==
    IF s = <<>> THEN 0
    ELSE (IF s[Len(s)].state = "returned" THEN s[Len(s)].count ELSE 0)
         + SumCounts(SubSeq(s, 1, Len(s) - 1))

IsMetadataName(name) == name \in UnderscoreNames
IndexFetches == {"fetch_extrinsics_index", "fetch_events_index"}
OpPositions == 1..Len(operations)
LogPositions == 1..Len(log)

\* the loop of scrape has left the operation at position i behind
Completed(i) == i < op_i
\* scrape raised exc while at operation i
RaisedAt(i, e) == status = "raised" /\ exc = e /\ op_i = i

\* positions <<a, b, c>> in the order the nested loops visit them
Before(p, q) ==
    \/ p[1] < q[1]
    \/ p[1] = q[1] /\ p[2] < q[2]
    \/ p[1] = q[1] /\ p[2] = q[2] /\ p[3] < q[3]

\* an operations map of the five recognized keys whose subtrees are maps of
\* lists or maps: no null at a level the walkers iterate
Iterated(i) ==
    /\ operations[i].key \in RecognizedOps
    /\ operations[i].key \notin ListOps => operations[i].val.tag = "dict"
    /\ operations[i].key \in ModuleCallOps =>
          \A m \in 1..Len(operations[i].val.entries) :
              ~IsMetadataName(operations[i].val.entries[m].key)
                  => Iterable(operations[i].val.entries[m].val)

\* the value of module m of operation i, and the name of its c-th element
CallsAt(i, m) == operations[i].val.entries[m].val
\* whether the (module, call) pair at <<i, m, c>> is under a skip marker: its own
\* sub-configuration, its module, the operation subtree or the chain scope
EffectiveSkip(i, m, c) ==
    \/ chain_config.skip
    \/ MarksSkip(operations[i].val)
    \/ MarksSkip(CallsAt(i, m))
    \/ CallsAt(i, m).tag = "dict" /\ MarksSkip(CallsAt(i, m).entries[c].val)

\* the pairs of operation i a walk has to fetch
PairsToFetch(i) ==
    LET mods == operations[i].val
        Calls(m) ==
            {c \in 1..Len(IterKeys(CallsAt(i, m))) :
                /\ ~IsMetadataName(IterKeys(CallsAt(i, m))[c])
                /\ ~EffectiveSkip(i, m, c)}
    IN  UNION {{<<i, m, c>> : c \in Calls(m)} :
                  m \in {n \in 1..Len(IterKeys(mods)) : ~IsMetadataName(IterKeys(mods)[n])}}

(***************************************************************************)
(* C1                                                                      *)
(***************************************************************************)
\* C1: for an operations map of recognized keys and fetches that all return
\* counts, scrape ends by returning the sum of the counts returned, a map with
\* `transfers` included.
C1_ScrapeReturnsSumOfCounts ==
    (/\ pc = "done"
     /\ \A i \in OpPositions : Iterated(i)
     /\ \A k \in LogPositions : log[k].state # "raised")
    => (status = "returned" /\ result = SumCounts(log))

(***************************************************************************)
(* C2                                                                      *)
(***************************************************************************)
\* C2: an unrecognized operation key is reported and passed over: scrape never
\* raises at it, every such key left behind has been reported, every recognized
\* key the loop has reached, before or after it, has been dispatched, in order,
\* and a scrape that returns returns the sum of the counts fetched for them.
C2_UnrecognizedKeyPassedOver ==
    /\ \A i \in OpPositions :
          (~IsMetadataName(operations[i].key) /\ operations[i].key \notin RecognizedOps)
          => /\ ~(status = "raised" /\ op_i = i)
             /\ i \notin Elements(dispatched)
             /\ (i < op_i <=> operations[i].key \in Elements(errors_logged))
    /\ \A k \in 1..Len(errors_logged) : errors_logged[k] \notin RecognizedOps
    /\ Elements(dispatched) =
          {i \in OpPositions : /\ operations[i].key \in RecognizedOps
                               /\ i < op_i \/ (i = op_i /\ pc # "scrape")}
    /\ \A k1, k2 \in 1..Len(dispatched) : k1 < k2 => dispatched[k1] < dispatched[k2]
    /\ status = "returned" =>
          /\ op_i = Len(operations) + 1
          /\ result = SumCounts(log)

\* an unrecognized key stood first, the recognized key after it was fetched and
\* counted, and scrape returned
C2_Witness ==
    /\ status = "returned"
    /\ Len(operations) = 2
    /\ operations[1].key = "staking"
    /\ operations[2].key \in RecognizedOps
    /\ errors_logged = <<"staking">>
    /\ log # <<>>
    /\ result > 0

(***************************************************************************)
(* C3                                                                      *)
(***************************************************************************)
\* C3: a null value of `extrinsics` or `events` does not fail, and the walk of it
\* makes at least one fetch, with a scope derived from the chain scope.
C3_NullModulesFetchesEverything ==
    \A i \in OpPositions :
        (/\ operations[i].key \in ModuleCallOps
         /\ operations[i].val = Null
         /\ i \in Elements(dispatched))
        => /\ ~RaisedAt(i, "TypeError")
           /\ Completed(i) =>
                 \E k \in LogPositions :
                     /\ log[k].pos[1] = i
                     /\ log[k].fn \in IndexFetches
                     /\ log[k].scope.skip = chain_config.skip

(***************************************************************************)
(* C4                                                                      *)
(***************************************************************************)
\* C4: a module key whose value is null does not fail the walk: the module is
\* fetched with no call restriction and the modules after it are processed.
C4_NullModuleValueAccepted ==
    \A i \in OpPositions :
        (operations[i].key \in ModuleCallOps /\ operations[i].val.tag = "dict")
        => \A m \in 1..Len(operations[i].val.entries) :
              (/\ ~IsMetadataName(operations[i].val.entries[m].key)
               /\ CallsAt(i, m) = Null
               /\ ~chain_config.skip
               /\ ~MarksSkip(operations[i].val))
              => /\ ~(RaisedAt(i, "TypeError") /\ mod_i = m)
                 /\ Completed(i) =>
                       \E k \in LogPositions :
                           /\ log[k].pos[1] = i
                           /\ log[k].pos[2] = m
                           /\ log[k].args[1] = operations[i].val.entries[m].key

(***************************************************************************)
(* C5                                                                      *)
(***************************************************************************)
\* C5: a key that begins with the underscore marker is never an operation,
\* module, call or account name: no fetch is invoked with one, none is handed to
\* an operation branch, none is reported as unrecognized.
C5_MetadataKeysNeverNamed ==
    /\ \A k \in LogPositions :
          \A a \in 1..Len(log[k].args) : ~IsMetadataName(log[k].args[a])
    /\ \A k \in 1..Len(dispatched) : ~IsMetadataName(operations[dispatched[k]].key)
    /\ \A k \in 1..Len(errors_logged) : ~IsMetadataName(errors_logged[k])

\* scrape returned after passing over a metadata key among the operations and a
\* metadata item in a list of calls, whose next item it fetched
C5_Witness ==
    /\ status = "returned"
    /\ \E i \in OpPositions : IsMetadataName(operations[i].key)
    /\ \E k \in LogPositions :
          /\ log[k].fn \in IndexFetches
          /\ log[k].pos[3] > 1
          /\ IsMetadataName(IterKeys(CallsAt(log[k].pos[1], log[k].pos[2]))[1])

(***************************************************************************)
(* C6                                                                      *)
(***************************************************************************)
\* C6: the module-call walk never fetches a pair under a skip marker, fetches no
\* pair twice, and a walk that returns has fetched exactly the pairs that are
\* neither metadata nor skipped, each with its own names; a scrape that returns
\* counts only what was fetched.
C6_SkippedPairsNeverFetched ==
    /\ \A k \in LogPositions :
          log[k].fn \in IndexFetches =>
              /\ ~EffectiveSkip(log[k].pos[1], log[k].pos[2], log[k].pos[3])
              /\ ~log[k].scope.skip
              /\ log[k].pos \in PairsToFetch(log[k].pos[1])
              /\ log[k].args =
                    <<IterKeys(operations[log[k].pos[1]].val)[log[k].pos[2]],
                      IterKeys(CallsAt(log[k].pos[1], log[k].pos[2]))[log[k].pos[3]]>>
    /\ \A k1, k2 \in LogPositions : k1 < k2 => Before(log[k1].pos, log[k2].pos)
    /\ \A i \in OpPositions :
          (operations[i].key \in ModuleCallOps /\ Completed(i))
          => {log[k].pos : k \in {j \in LogPositions : log[j].pos[1] = i}} = PairsToFetch(i)
    /\ status = "returned" => result = SumCounts(log)

\* a walk returned after skipping a call its own sub-configuration marks and
\* fetching the call after it
C6_Witness ==
    /\ status = "returned"
    /\ \E k \in LogPositions :
          /\ log[k].fn \in IndexFetches
          /\ log[k].pos[3] = 2
          /\ log[k].state = "returned"
          /\ CallsAt(log[k].pos[1], log[k].pos[2]).tag = "dict"
          /\ MarksSkip(CallsAt(log[k].pos[1], log[k].pos[2]).entries[1].val)

(***************************************************************************)
(* C7                                                                      *)
(***************************************************************************)
\* C7: an account is passed to fetch_transfers only if its own sub-configuration
\* does not mark skip, and an account that has a sub-configuration is passed
\* with the scope derived from it, not with the scope of all the accounts.
C7_AccountScopeIsItsOwn ==
    \A k \in LogPositions :
        (log[k].fn = "fetch_transfers" /\ operations[log[k].pos[1]].val.tag = "dict")
        => LET accts == operations[log[k].pos[1]].val
               own == accts.entries[log[k].pos[2]].val
           IN  /\ ~MarksSkip(own)
               /\ own.tag = "dict" =>
                     log[k].scope =
                         CreateInnerConfig(CreateInnerConfig(chain_config, accts), own)

(***************************************************************************)
(* C8                                                                      *)
(***************************************************************************)
\* C8: a fetch that fails ends scrape: the failure is what scrape raises, the
\* failed invocation is the last one made, and scrape returns nothing.
C8_FetchFailurePropagates ==
    \A k \in LogPositions :
        log[k].state = "raised"
        => /\ k = Len(log)
           /\ status = "raised"
           /\ exc = "FetchError"
           /\ pc = "done"

\* a fetch failed while a recognized operation key was still to come
C8_Witness ==
    /\ log # <<>>
    /\ log[Len(log)].state = "raised"
    /\ log[Len(log)].fn \in IndexFetches
    /\ op_i < Len(operations)
    /\ operations[op_i + 1].key \in RecognizedOps

(***************************************************************************)
(* C9                                                                      *)
(***************************************************************************)
\* C9: every fetch invocation is awaited to completion before the next one or
\* the end of scrape, at most one is in progress, and the invocations follow
\* the iteration order of the configuration.
C9_FetchesAwaitedInOrder ==
    /\ \A k \in LogPositions :
          /\ log[k].state # "not_awaited"
          /\ k < Len(log) => log[k].state = "returned"
          /\ pc = "done" => log[k].state \in {"returned", "raised"}
    /\ Cardinality({k \in LogPositions : log[k].state = "pending"}) <= 1
    /\ \A k1, k2 \in LogPositions : k1 < k2 => Before(log[k1].pos, log[k2].pos)

(***************************************************************************)
(* C10                                                                     *)
(***************************************************************************)
\* C10: the look-up returns the candidates that are the id of no stored Event,
\* in the order of the input, and leaves the table as it was.
C10_MissingIdsExact ==
    LET stored == {row.id : row \in events_table}
        Absent(index) == index \notin stored
    IN  /\ missing = SelectSeq(index_list, Absent)
        /\ events_table = table_before

\* a look-up of a list holding a stored id between two absent ones
C10_Witness ==
    /\ Len(index_list) = 3
    /\ index_list[1] \notin {row.id : row \in events_table}
    /\ index_list[2] \in {row.id : row \in events_table}
    /\ index_list[3] \notin {row.id : row \in events_table}
    /\ index_list[1] # index_list[3]
    /\ missing = <<index_list[1], index_list[3]>>

====
